---- MODULE Spec2Model ----
(***************************************************************************)
(* Browser launch configuration (browser_use/browser/profile.py): the      *)
(* flag catalogs, the argument composer (get_args with args_as_dict and    *)
(* args_as_list), the profile's construction-time validators and the       *)
(* display resolver (detect_display_configuration).                         *)
(*                                                                         *)
(* Strings.  A Python string is modelled as a sequence of tokens.  The     *)
(* tokens "-", "=" and " " are the single characters that str.split('='),  *)
(* str.strip(), str.lstrip('-') and str.startswith('--') inspect; every    *)
(* other token is an opaque run of characters that these operations never  *)
(* cut.  Every '=' is a token of its own; in each '='-free segment the     *)
(* leading '-' and ' ' characters and the trailing ' ' characters are      *)
(* tokens of their own and the rest is one opaque token.  The operations   *)
(* below keep this form, so two strings are equal exactly when their       *)
(* token sequences are.                                                    *)
(***************************************************************************)
EXTENDS Integers, Sequences, FiniteSets, TLC

(* ---------------------------------------------------------------------- *)
(* Sequence helpers                                                        *)
(* ---------------------------------------------------------------------- *)
RECURSIVE Join(_, _)
Join(words, sep) ==
    IF words = <<>> THEN ""
    ELSE IF Len(words) = 1 THEN words[1]
    ELSE words[1] \o sep \o Join(Tail(words), sep)

Contains(seq, x) == \E i \in 1..Len(seq) : seq[i] = x

(* ---------------------------------------------------------------------- *)
(* Flag catalogs                                                           *)
(* ---------------------------------------------------------------------- *)
CHROME_DISABLED_COMPONENTS ==
    << "AcceptCHFrame",
       "AutoExpandDetailsElement",
       "AvoidUnnecessaryBeforeUnloadCheckSync",
       "CertificateTransparencyComponentUpdater",
       "DestroyProfileOnBrowserClose",
       "DialMediaRouteProvider",
       "ExtensionManifestV2Disabled",
       "GlobalMediaControls",
       "HttpsUpgrades",
       "ImprovedCookieControls",
       "LazyFrameLoading",
       "LensOverlay",
       "MediaRouter",
       "PaintHolding",
       "ThirdPartyStoragePartitioning",
       "Translate",
       "AutomationControlled",
       "OptimizationHints",
       "ProcessPerSiteUpToMainFrameThreshold",
       "InterestFeedContentSuggestions",
       "CalculateNativeWinOcclusion",
       "HeavyAdPrivacyMitigations",
       "PrivacySandboxSettings4",
       "AutofillServerCommunication",
       "CrashReporting",
       "OverscrollHistoryNavigation",
       "InfiniteSessionRestore",
       "ExtensionDisableUnsupportedDeveloper",
       "OptimizationGuideModelDownloading",
       "OptimizationHintsFetching",
       "OptimizationTargetPrediction" >>

CHROME_HEADLESS_ARGS ==
    << <<"-", "-", "headless", "=", "new">> >>

CHROME_DOCKER_ARGS ==
    << <<"-", "-", "no-sandbox">>,
       <<"-", "-", "disable-gpu-sandbox">>,
       <<"-", "-", "disable-setuid-sandbox">>,
       <<"-", "-", "disable-dev-shm-usage">>,
       <<"-", "-", "no-xshm">>,
       <<"-", "-", "no-zygote">>,
       <<"-", "-", "single-process">> >>

CHROME_DISABLE_SECURITY_ARGS ==
    << <<"-", "-", "disable-web-security">>,
       <<"-", "-", "disable-site-isolation-trials">>,
       <<"-", "-", "disable-features", "=", "IsolateOrigins,site-per-process">>,
       <<"-", "-", "allow-running-insecure-content">>,
       <<"-", "-", "ignore-certificate-errors">>,
       <<"-", "-", "ignore-ssl-errors">>,
       <<"-", "-", "ignore-certificate-errors-spki-list">> >>

CHROME_DETERMINISTIC_RENDERING_ARGS ==
    << <<"-", "-", "deterministic-mode">>,
       <<"-", "-", "js-flags", "=", "-", "-", "random-seed", "=", "1157259159">>,
       <<"-", "-", "force-device-scale-factor", "=", "2">>,
       <<"-", "-", "enable-webgl">>,
       <<"-", "-", "font-render-hinting", "=", "none">>,
       <<"-", "-", "force-color-profile", "=", "srgb">> >>

CHROME_DEFAULT_ARGS ==
    << <<"-", "-", "disable-field-trial-config">>,
       <<"-", "-", "disable-background-networking">>,
       <<"-", "-", "disable-background-timer-throttling">>,
       <<"-", "-", "disable-backgrounding-occluded-windows">>,
       <<"-", "-", "disable-back-forward-cache">>,
       <<"-", "-", "disable-breakpad">>,
       <<"-", "-", "disable-client-side-phishing-detection">>,
       <<"-", "-", "disable-component-extensions-with-background-pages">>,
       <<"-", "-", "disable-component-update">>,
       <<"-", "-", "no-default-browser-check">>,
       <<"-", "-", "disable-dev-shm-usage">>,
       <<"-", "-", "allow-pre-commit-input">>,
       <<"-", "-", "disable-hang-monitor">>,
       <<"-", "-", "disable-ipc-flooding-protection">>,
       <<"-", "-", "disable-popup-blocking">>,
       <<"-", "-", "disable-prompt-on-repost">>,
       <<"-", "-", "disable-renderer-backgrounding">>,
       <<"-", "-", "metrics-recording-only">>,
       <<"-", "-", "no-first-run">>,
       <<"-", "-", "password-store", "=", "basic">>,
       <<"-", "-", "use-mock-keychain">>,
       <<"-", "-", "no-service-autorun">>,
       <<"-", "-", "export-tagged-pdf">>,
       <<"-", "-", "disable-search-engine-choice-screen">>,
       <<"-", "-", "unsafely-disable-devtools-self-xss-warnings">>,
       <<"-", "-", "enable-features", "=", "NetworkService,NetworkServiceInProcess">>,
       <<"-", "-", "enable-network-information-downlink-max">>,
       <<"-", "-", "test-type", "=", "gpu">>,
       <<"-", "-", "disable-sync">>,
       <<"-", "-", "allow-legacy-extension-manifests">>,
       <<"-", "-", "allow-pre-commit-input">>,
       <<"-", "-", "disable-blink-features", "=", "AutomationControlled">>,
       <<"-", "-", "install-autogenerated-theme", "=", "0,0,0">>,
       <<"-", "-", "hide-scrollbars">>,
       <<"-", "-", "log-level", "=", "2">>,
       <<"-", "-", "disable-focus-on-load">>,
       <<"-", "-", "disable-window-activation">>,
       <<"-", "-", "generate-pdf-document-outline">>,
       <<"-", "-", "no-pings">>,
       <<"-", "-", "ash-no-nudges">>,
       <<"-", "-", "disable-infobars">>,
       <<"-", "-", "simulate-outdated-no-au", "=", "\"Tue, 31 Dec 2099 23:59:59 GMT\"">>,
       <<"-", "-", "hide-crash-restore-bubble">>,
       <<"-", "-", "suppress-message-center-popups">>,
       <<"-", "-", "disable-domain-reliability">>,
       <<"-", "-", "disable-datasaver-prompt">>,
       <<"-", "-", "disable-speech-synthesis-api">>,
       <<"-", "-", "disable-speech-api">>,
       <<"-", "-", "disable-print-preview">>,
       <<"-", "-", "safebrowsing-disable-auto-update">>,
       <<"-", "-", "disable-external-intent-requests">>,
       <<"-", "-", "disable-desktop-notifications">>,
       <<"-", "-", "noerrdialogs">>,
       <<"-", "-", "silent-debugger-extension-api">>,
       <<"-", "-", "disable-features", "=", Join(CHROME_DISABLED_COMPONENTS, ",")>> >>

(* ---------------------------------------------------------------------- *)
(* Python string operations on token sequences                             *)
(* ---------------------------------------------------------------------- *)
RECURSIVE LStripTok(_, _)
LStripTok(s, t) == IF s # <<>> /\ Head(s) = t THEN LStripTok(Tail(s), t) ELSE s

RECURSIVE RStripTok(_, _)
RStripTok(s, t) ==
    IF s # <<>> /\ s[Len(s)] = t THEN RStripTok(SubSeq(s, 1, Len(s) - 1), t) ELSE s

\* str.strip(): leading and trailing whitespace removed
Strip(s) == RStripTok(LStripTok(s, " "), " ")

\* str.lstrip('-'): leading dashes removed
LStripDash(s) == LStripTok(s, "-")

\* position of the first '=' of s, 0 when it has none
RECURSIVE FirstEq(_, _)
FirstEq(s, i) ==
    IF i > Len(s) THEN 0 ELSE IF s[i] = "=" THEN i ELSE FirstEq(s, i + 1)

\* [*arg.split('=', 1), '', '', ''] unpacked into key, value, *_
SplitKeyValue(arg) ==
    LET i == FirstEq(arg, 1)
    IN  IF i = 0 THEN [key |-> arg, value |-> <<>>]
        ELSE [key |-> SubSeq(arg, 1, i - 1), value |-> SubSeq(arg, i + 1, Len(arg))]

\* str.startswith('--')
StartsWithDashDash(s) == Len(s) >= 2 /\ s[1] = "-" /\ s[2] = "-"

(* ---------------------------------------------------------------------- *)
(* BrowserLaunchArgs.args_as_dict / args_as_list                           *)
(* A dict is a sequence of [key, value] entries in insertion order:        *)
(* assigning to a key that is present keeps its position.                  *)
(* ---------------------------------------------------------------------- *)
DictKeys(d) == [i \in 1..Len(d) |-> d[i].key]

\* DictSet with every assignment adding an entry
DictSetAppend(d, k, v) == Append(d, [key |-> k, value |-> v])

\* DictSet with an assignment to a present key leaving the entry as it is
DictSetKeepFirst(d, k, v) ==
    IF \E i \in 1..Len(d) : d[i].key = k THEN d ELSE Append(d, [key |-> k, value |-> v])

DictSet(d, k, v) ==
    IF \E i \in 1..Len(d) : d[i].key = k
    THEN [i \in 1..Len(d) |-> IF d[i].key = k THEN [key |-> k, value |-> v] ELSE d[i]]
    ELSE Append(d, [key |-> k, value |-> v])

\* the body of the loop of args_as_dict
ArgsDictStep(d, arg) ==
    LET kv == SplitKeyValue(arg)
    IN  DictSet(d, LStripDash(Strip(kv.key)), Strip(kv.value))

\* the for loop of args_as_dict; d is the dict built from args[1..i-1].
\* (Len(d) >= 0 is always true: it has d evaluated before the next iteration.)
RECURSIVE ArgsDictLoop(_, _, _)
ArgsDictLoop(d, args, i) ==
    IF Len(d) >= 0 /\ i > Len(args) THEN d
    ELSE ArgsDictLoop(ArgsDictStep(d, args[i]), args, i + 1)

args_as_dict(args) == ArgsDictLoop(<<>>, args, 1)

RenderArg(e) ==
    IF e.value # <<>>
    THEN <<"-", "-">> \o LStripDash(e.key) \o <<"=">> \o e.value
    ELSE <<"-", "-">> \o LStripDash(e.key)

args_as_list(d) == [i \in 1..Len(d) |-> RenderArg(d[i])]

(* ---------------------------------------------------------------------- *)
(* Python values.  An optional value (T | None) is None or Some(v).        *)
(* ---------------------------------------------------------------------- *)
None == <<>>
Some(v) == <<v>>

\* playwright's ViewportSize(width=w, height=h), a dict with both keys
ViewportSize(w, h) == [k \in {"width", "height"} |-> IF k = "width" THEN w ELSE h]

\* dict.get(k) and d[k] = v on a dict with string keys
DictGet(d, k) == IF k \in DOMAIN d THEN Some(d[k]) ELSE None
DictPut(d, k, v) == [x \in (DOMAIN d) \cup {k} |-> IF x = k THEN v ELSE d[x]]

\* truth value of a bool | None, of an int | None or float | None, of a dict | None
TruthyBool(o) == o # None /\ o[1]
TruthyNum(o) == o # None /\ o[1] # 0
TruthyDict(o) == o # None /\ DOMAIN o[1] # {}

\* a or b, for numbers and for dicts
OrNum(a, b) == IF TruthyNum(a) THEN a ELSE b
OrDict(a, b) == IF TruthyDict(a) THEN a ELSE b

(* ---------------------------------------------------------------------- *)
(* Field validators                                                        *)
(* ---------------------------------------------------------------------- *)
validate_cli_arg(arg) == StartsWithDashDash(arg)

validate_float_range(value, min_val) == min_val <= value

\* a ViewportSize is a total TypedDict: both keys are required
IsViewportSize(o) == o = None \/ DOMAIN o[1] = {"width", "height"}

(* ---------------------------------------------------------------------- *)
(* The records.  Only the fields the modelled operations read or write:    *)
(* BrowserConnectArgs (timeout), BrowserLaunchArgs (headless, args,        *)
(* ignore_default_args, devtools, timeout), BrowserContextArgs (screen,    *)
(* viewport, no_viewport, device_scale_factor) and BrowserProfile.         *)
(* ignore_default_args is [all |-> TRUE] for the literal True, otherwise   *)
(* [all |-> FALSE, list |-> the flags].                                    *)
(* ---------------------------------------------------------------------- *)
IgnoreAll == [all |-> TRUE, list |-> <<>>]
IgnoreList(l) == [all |-> FALSE, list |-> l]

\* default_factory of ignore_default_args
DefaultIgnoreDefaultArgs ==
    IgnoreList(<< <<"-", "-", "enable-automation">>, <<"-", "-", "disable-extensions">> >>)

\* the field defaults of BrowserProfile
Defaults ==
    [ headless                |-> None,
      args                    |-> <<>>,
      ignore_default_args     |-> DefaultIgnoreDefaultArgs,
      devtools                |-> FALSE,
      timeout                 |-> 30000,
      screen                  |-> None,
      viewport                |-> None,
      no_viewport             |-> None,
      device_scale_factor     |-> None,
      disable_security        |-> FALSE,
      deterministic_rendering |-> FALSE,
      window_size             |-> None,
      window_height           |-> None,
      window_width            |-> None,
      window_position         |-> Some(ViewportSize(0, 0)),
      profile_directory       |-> <<"Default">> ]

ConnectFields == {"timeout"}
LaunchFields == {"headless", "args", "ignore_default_args", "devtools", "timeout"}
ProfileFields == DOMAIN Defaults

FieldsOf(cls) ==
    CASE cls = "BrowserConnectArgs" -> ConnectFields
      [] cls = "BrowserLaunchArgs"  -> LaunchFields
      [] OTHER                      -> ProfileFields

(* ---------------------------------------------------------------------- *)
(* Model validators                                                        *)
(* ---------------------------------------------------------------------- *)
\* validate_devtools_headless asserting that neither of the two is set
validate_devtools_headless_either(p) == ~(TruthyBool(p.headless) \/ p.devtools)

\* the assertion of validate_devtools_headless
validate_devtools_headless(p) == ~(TruthyBool(p.headless) /\ p.devtools)

\* copy_old_config_names_to_new with the legacy fields ahead of window_size
copy_old_legacy_first(p) ==
    IF TruthyNum(p.window_width) \/ TruthyNum(p.window_height)
    THEN LET ws0 == OrDict(p.window_size, Some(<<>>))[1]
             w   == OrNum(OrNum(p.window_width, DictGet(ws0, "width")), Some(1280))[1]
             ws1 == DictPut(ws0, "width", w)
             h   == OrNum(OrNum(p.window_height, DictGet(ws1, "height")), Some(1100))[1]
             ws2 == DictPut(ws1, "height", h)
         IN  [p EXCEPT !.window_size = Some(ws2)]
    ELSE p

\* copy_old_config_names_to_new with the two keys of window_size crossed
copy_old_keys_crossed(p) ==
    IF TruthyNum(p.window_width) \/ TruthyNum(p.window_height)
    THEN LET ws0 == OrDict(p.window_size, Some(<<>>))[1]
             w   == OrNum(OrNum(DictGet(ws0, "height"), p.window_width), Some(1280))[1]
             h   == OrNum(OrNum(DictGet(ws0, "width"), p.window_height), Some(1100))[1]
         IN  [p EXCEPT !.window_size = Some(DictPut(DictPut(ws0, "width", w), "height", h))]
    ELSE p

copy_old_config_names_to_new(p) ==
    IF TruthyNum(p.window_width) \/ TruthyNum(p.window_height)
    THEN LET ws0 == OrDict(p.window_size, Some(<<>>))[1]
             w   == OrNum(OrNum(DictGet(ws0, "width"), p.window_width), Some(1280))[1]
             ws1 == DictPut(ws0, "width", w)
             h   == OrNum(OrNum(DictGet(ws1, "height"), p.window_height), Some(1100))[1]
             ws2 == DictPut(ws1, "height", h)
         IN  [p EXCEPT !.window_size = Some(ws2)]
    ELSE p

(* ---------------------------------------------------------------------- *)
(* Construction: field validation, then the model validators of the class  *)
(* (those of the base classes first).  A failed validation yields no       *)
(* record.  kw gives every option; an option the caller leaves out has its *)
(* default.  Options the class does not declare are ignored.               *)
(* ---------------------------------------------------------------------- *)
FieldError(cls, kw) ==
    LET fs == FieldsOf(cls)
    IN  IF "args" \in fs /\ \E i \in 1..Len(kw.args) : ~validate_cli_arg(kw.args[i])
        THEN "validate_cli_arg"
        ELSE IF "ignore_default_args" \in fs /\ ~kw.ignore_default_args.all
                /\ \E i \in 1..Len(kw.ignore_default_args.list) :
                       ~validate_cli_arg(kw.ignore_default_args.list[i])
        THEN "validate_cli_arg"
        ELSE IF "device_scale_factor" \in fs /\ kw.device_scale_factor # None
                /\ ~validate_float_range(kw.device_scale_factor[1], 0)
        THEN "validate_float_range"
        ELSE IF \E f \in fs \cap {"screen", "viewport", "window_size", "window_position"} :
                    ~IsViewportSize(kw[f])
        THEN "ViewportSize"
        ELSE ""

\* the model validators, in the order they run; [p, raised]
ModelValidators(cls, p) ==
    IF "devtools" \in FieldsOf(cls) /\ ~validate_devtools_headless(p)
    THEN [p |-> p, raised |-> "validate_devtools_headless"]
    ELSE IF cls = "BrowserProfile"
    THEN [p |-> copy_old_config_names_to_new(p), raised |-> ""]
    ELSE [p |-> p, raised |-> ""]

New(cls, kw) ==
    LET fe == FieldError(cls, kw)
        mv == ModelValidators(cls, [f \in FieldsOf(cls) |-> kw[f]])
    IN  IF fe # "" THEN [obj |-> None, raised |-> fe]
        ELSE IF mv.raised # "" THEN [obj |-> None, raised |-> mv.raised]
        ELSE [obj |-> Some(mv.p), raised |-> ""]

(* ---------------------------------------------------------------------- *)
(* Attribute assignment on a BrowserProfile.  Its model_config sets        *)
(* validate_assignment=True: an assignment stores the value and runs the   *)
(* model validators again on the updated record; a failing validator       *)
(* raises with the value already stored.  A validator's own writes are     *)
(* plain writes.  st is [p, raised]; once an assignment has raised, the    *)
(* rest of the method does not run.                                        *)
(* ---------------------------------------------------------------------- *)
SetAttr(st, field, value) ==
    IF st.raised # "" THEN st
    ELSE ModelValidators("BrowserProfile", [st.p EXCEPT ![field] = value])

(* ---------------------------------------------------------------------- *)
(* BrowserProfile.detect_display_configuration                             *)
(* display_size is what get_display_size() returned.                       *)
(* ---------------------------------------------------------------------- *)
Fallback == Some(ViewportSize(1280, 1100))

HeadlessGeometry(s, display_size) ==
    LET a1 == SetAttr(s, "window_size", None)
        a2 == SetAttr(a1, "window_position", None)
        a3 == SetAttr(a2, "no_viewport", Some(FALSE))
    IN  SetAttr(a3, "viewport", OrDict(OrDict(a3.p.viewport, display_size), Fallback))

\* HeadfulGeometry with the fallback size ahead of the detected size
HeadfulGeometryFallbackFirst(s, display_size) ==
    LET b1 == SetAttr(s, "window_size", OrDict(OrDict(s.p.window_size, Fallback), display_size))
        b2 == SetAttr(b1, "no_viewport",
                      IF b1.p.no_viewport = None THEN Some(TRUE) ELSE b1.p.no_viewport)
    IN  SetAttr(b2, "viewport", IF TruthyBool(b2.p.no_viewport) THEN None ELSE b2.p.viewport)

HeadfulGeometry(s, display_size) ==
    LET b1 == SetAttr(s, "window_size", OrDict(OrDict(s.p.window_size, display_size), Fallback))
        b2 == SetAttr(b1, "no_viewport",
                      IF b1.p.no_viewport = None THEN Some(TRUE) ELSE b1.p.no_viewport)
    IN  SetAttr(b2, "viewport", IF TruthyBool(b2.p.no_viewport) THEN None ELSE b2.p.viewport)

\* ViewportSetup leaving screen as it is when no viewport is in effect
ViewportSetupKeepsScreen(s, display_size) ==
    LET use_viewport0 == \/ TruthyBool(s.p.headless)
                         \/ TruthyDict(s.p.viewport)
                         \/ TruthyNum(s.p.device_scale_factor)
        c1 == SetAttr(s, "no_viewport",
                      IF s.p.no_viewport = None THEN Some(~use_viewport0) ELSE s.p.no_viewport)
        use_viewport == ~TruthyBool(c1.p.no_viewport)
    IN  IF use_viewport
        THEN LET d1 == SetAttr(c1, "viewport",
                               OrDict(OrDict(c1.p.viewport, display_size), Fallback))
                 d2 == SetAttr(d1, "device_scale_factor",
                               OrNum(d1.p.device_scale_factor, Some(1)))
             IN  SetAttr(d2, "screen", OrDict(OrDict(d2.p.screen, display_size), Fallback))
        ELSE LET e1 == SetAttr(c1, "viewport", None)
             IN  SetAttr(e1, "device_scale_factor", None)

ViewportSetup(s, display_size) ==
    LET use_viewport0 == \/ TruthyBool(s.p.headless)
                         \/ TruthyDict(s.p.viewport)
                         \/ TruthyNum(s.p.device_scale_factor)
        c1 == SetAttr(s, "no_viewport",
                      IF s.p.no_viewport = None THEN Some(~use_viewport0) ELSE s.p.no_viewport)
        use_viewport == ~TruthyBool(c1.p.no_viewport)
    IN  IF use_viewport
        THEN LET d1 == SetAttr(c1, "viewport",
                               OrDict(OrDict(c1.p.viewport, display_size), Fallback))
                 d2 == SetAttr(d1, "device_scale_factor",
                               OrNum(d1.p.device_scale_factor, Some(1)))
             IN  SetAttr(d2, "screen", OrDict(OrDict(d2.p.screen, display_size), Fallback))
        ELSE LET e1 == SetAttr(c1, "viewport", None)
                 e2 == SetAttr(e1, "device_scale_factor", None)
             IN  SetAttr(e2, "screen", None)

detect_display_configuration(p, display_size) ==
    LET s0 == [p |-> p, raised |-> ""]
        s1 == IF TruthyDict(display_size)
              THEN SetAttr(s0, "screen", OrDict(OrDict(p.screen, display_size), Fallback))
              ELSE s0
        s2 == IF s1.p.headless = None
              THEN SetAttr(s1, "headless", Some(~TruthyDict(display_size)))
              ELSE s1
        s3 == IF TruthyBool(s2.p.headless)
              THEN HeadlessGeometry(s2, display_size)
              ELSE HeadfulGeometry(s2, display_size)
    IN  ViewportSetup(s3, display_size)

(* ---------------------------------------------------------------------- *)
(* BrowserProfile.get_args                                                 *)
(* set(CHROME_DEFAULT_ARGS) - set(ignore_default_args) is a set of         *)
(* strings: the order in which it is iterated depends on the string hashes *)
(* of the process.  hash_seed stands for the hash seed of the process; the *)
(* iteration orders modelled are the rotations of the catalog order (seed  *)
(* 0 is the catalog order itself).                                         *)
(* ---------------------------------------------------------------------- *)
\* the distinct elements of a that are not in b, in a's order
RECURSIVE SetDifferenceLoop(_, _, _, _)
SetDifferenceLoop(acc, a, b, i) ==
    IF Len(acc) >= 0 /\ i > Len(a) THEN acc
    ELSE SetDifferenceLoop(IF Contains(acc, a[i]) \/ Contains(b, a[i]) THEN acc
                           ELSE Append(acc, a[i]),
                           a, b, i + 1)

SetDifference(a, b) == SetDifferenceLoop(<<>>, a, b, 1)

SetIteration(elems, seed) ==
    [i \in 1..Len(elems) |-> elems[((i - 1 + seed) % Len(elems)) + 1]]

DefaultArgs(p, seed) ==
    IF ~p.ignore_default_args.all
    THEN SetIteration(SetDifference(CHROME_DEFAULT_ARGS, p.ignore_default_args.list), seed)
    ELSE <<>>

WindowSizeArg(window_size) ==
    <<"-", "-", "window-size", "=",
      ToString(window_size["height"]) \o "," \o ToString(window_size["width"])>>

WindowPositionArg(window_position) ==
    <<"-", "-", "window-position", "=",
      ToString(window_position["width"]) \o "," \o ToString(window_position["height"])>>

\* the list handed to args_as_dict
ComposedArgs(p, in_docker, seed) ==
    DefaultArgs(p, seed)
    \o p.args
    \o << <<"-", "-", "profile-directory", "=">> \o p.profile_directory >>
    \o (IF in_docker THEN CHROME_DOCKER_ARGS ELSE <<>>)
    \o (IF TruthyBool(p.headless) THEN CHROME_HEADLESS_ARGS ELSE <<>>)
    \o (IF p.disable_security THEN CHROME_DISABLE_SECURITY_ARGS ELSE <<>>)
    \o (IF p.deterministic_rendering THEN CHROME_DETERMINISTIC_RENDERING_ARGS ELSE <<>>)
    \o (IF TruthyDict(p.window_size) THEN << WindowSizeArg(p.window_size[1]) >>
        ELSE IF ~TruthyBool(p.headless) THEN << <<"-", "-", "start-maximized">> >>
        ELSE <<>>)
    \o (IF TruthyDict(p.window_position) THEN << WindowPositionArg(p.window_position[1]) >>
        ELSE <<>>)

get_args(p, in_docker, seed) == args_as_list(args_as_dict(ComposedArgs(p, in_docker, seed)))

(* ---------------------------------------------------------------------- *)
(* BrowserProfile.kwargs_for_connect: a BrowserConnectArgs built from the  *)
(* dump of the profile (get_args() is called for the args option, which    *)
(* BrowserConnectArgs does not declare and ignores).                       *)
(* ---------------------------------------------------------------------- *)
kwargs_for_connect(p) == New("BrowserConnectArgs", p)

(* ====================================================================== *)
(* The state machine                                                       *)
(* ====================================================================== *)
VARIABLES
    IN_DOCKER,      \* the container signal, read once when the module is loaded
    hash_seed,      \* the string-hash seed of the process
    display_cache,  \* the memo of get_display_size(): None before the first call
    kwargs,         \* the constructor call made: None, or Some([cls, kw])
    profile,        \* the object constructed: None, or Some(record)
    ret             \* the last operation: [op, raised, value]

vars == <<IN_DOCKER, hash_seed, display_cache, kwargs, profile, ret>>

(* ---------------------------------------------------------------------- *)
(* Bounds and input sets                                                   *)
(* ---------------------------------------------------------------------- *)
MaxHashSeed == 1     \* hash seeds 0..MaxHashSeed
MaxArgs == 1         \* length of the user's args list
MaxFlags == 3        \* length of a flag list given to args_as_dict
MaxMigrations == 2   \* further runs of copy_old_config_names_to_new
MaxDetects == 2      \* calls of detect_display_configuration in a row

BoundedSeq(S, n) == UNION {[1..k -> S] : k \in 0..n}

\* what the platform can report: no display, or a 1920x1080 display
Displays == {None, Some(ViewportSize(1920, 1080))}

OptBool == {None, Some(TRUE), Some(FALSE)}

\* options of a profile that bear on its geometry
GeometryKwargs ==
    { [Defaults EXCEPT !.headless = h, !.devtools = dt, !.window_size = ws,
                       !.window_width = ww, !.window_height = wh,
                       !.window_position = wp, !.viewport = vp, !.no_viewport = nv,
                       !.device_scale_factor = dsf, !.screen = sc] :
        h \in OptBool, dt \in BOOLEAN,
        ws \in {None, Some(ViewportSize(1024, 768))},
        ww \in {None, Some(800)}, wh \in {None, Some(600)},
        wp \in {Some(ViewportSize(0, 0)), Some(ViewportSize(10, 20))},
        vp \in {None, Some(ViewportSize(640, 480))},
        nv \in OptBool, dsf \in {None, Some(2)},
        sc \in {None, Some(ViewportSize(2560, 1440))} }

Timeouts == {-1, 0, 5000}

TimeoutKwargs == { [Defaults EXCEPT !.timeout = t] : t \in Timeouts }

LaunchKwargs ==
    { [Defaults EXCEPT !.headless = h, !.devtools = dt] : h \in OptBool, dt \in BOOLEAN }

\* flags a user passes in args: one that overrides a default, a headless flag,
\* and one that is no CLI flag
UserFlags ==
    { <<"-", "-", "log-level", "=", "0">>,
      <<"-", "-", "headless", "=", "old">>,
      <<"-", "foo">> }

IgnoreChoices ==
    { DefaultIgnoreDefaultArgs,
      IgnoreAll,
      IgnoreList(<< <<"-", "-", "log-level", "=", "2">>, <<"-", "-", "no-first-run">> >>) }

\* options of a profile that bear on its command line
ComposerKwargs ==
    { [Defaults EXCEPT !.args = a, !.ignore_default_args = ig, !.headless = h,
                       !.disable_security = ds, !.deterministic_rendering = dr,
                       !.window_size = ws] :
        a \in BoundedSeq(UserFlags, MaxArgs), ig \in IgnoreChoices, h \in OptBool,
        ds \in BOOLEAN, dr \in BOOLEAN,
        ws \in {None, Some(ViewportSize(1024, 768))} }

\* flags given to args_as_dict directly
DictFlags ==
    { <<"-", "-", "foo", "=", "1">>,
      <<"-", "-", "foo", "=", "2">>,
      <<"-", "-", "foo">>,
      <<"-", "-", "bar", "=", "1">>,
      <<"-", "-", "-", "bar", " ", "=", " ", "2", "=", "3", " ">>,
      <<" ", "-", "-", "foo", "=">> }

\* options of a profile that bear on the migration of window_width and
\* window_height, a window_size with a key missing included
MigrationKwargs ==
    { [Defaults EXCEPT !.window_size = ws, !.window_width = ww, !.window_height = wh] :
        ws \in {None} \cup
               { Some([k \in ks |-> IF k = "width" THEN w ELSE h]) :
                   ks \in SUBSET {"width", "height"}, w \in {0, 1024}, h \in {0, 768} },
        ww \in {None, Some(0), Some(800)},
        wh \in {None, Some(0), Some(600)} }

(* ---------------------------------------------------------------------- *)
(* Operations                                                              *)
(* ---------------------------------------------------------------------- *)
Ret(op, raised, value) == [op |-> op, raised |-> raised, value |-> value]

InitProcess(dockers, seeds) ==
    /\ IN_DOCKER \in dockers
    /\ hash_seed \in seeds
    /\ display_cache = None
    /\ kwargs = None
    /\ profile = None
    /\ ret = Ret("", "", None)

\* cls(**kw)
Construct(cls, kw) ==
    /\ kwargs = None
    /\ kwargs' = Some([cls |-> cls, kw |-> kw])
    /\ LET r == New(cls, kw)
       IN  /\ profile' = r.obj
           /\ ret' = Ret("__init__", r.raised, None)
    /\ UNCHANGED <<IN_DOCKER, hash_seed, display_cache>>

IsProfile == profile # None /\ kwargs[1].cls = "BrowserProfile"

\* profile.detect_display_configuration(); get_display_size() is memoised.
\* ret.value.calls counts the calls made in a row and ret.value.before is the
\* profile as it was when the last of them began
DetectDisplayConfiguration ==
    /\ IsProfile
    /\ LET calls == IF ret.op = "detect_display_configuration" THEN ret.value.calls ELSE 0
       IN  /\ calls < MaxDetects
           /\ \E d \in (IF display_cache = None THEN Displays ELSE {display_cache[1]}) :
                 LET r == detect_display_configuration(profile[1], d)
                 IN  /\ display_cache' = Some(d)
                     /\ profile' = Some(r.p)
                     /\ ret' = Ret("detect_display_configuration", r.raised,
                                   [calls |-> calls + 1, before |-> profile[1]])
    /\ UNCHANGED <<IN_DOCKER, hash_seed, kwargs>>

\* profile.get_args()
GetArgs ==
    /\ IsProfile
    /\ ret' = Ret("get_args", "", get_args(profile[1], IN_DOCKER, hash_seed))
    /\ UNCHANGED <<IN_DOCKER, hash_seed, display_cache, kwargs, profile>>

\* profile.kwargs_for_connect()
KwargsForConnect ==
    /\ IsProfile
    /\ LET r == kwargs_for_connect(profile[1])
       IN  ret' = Ret("kwargs_for_connect", r.raised, r.obj)
    /\ UNCHANGED <<IN_DOCKER, hash_seed, display_cache, kwargs, profile>>

\* BrowserLaunchArgs.args_as_list(BrowserLaunchArgs.args_as_dict(args)); the
\* static methods read no state, so one call per behaviour stands for every call
ArgsRoundTrip(args) ==
    /\ ret.op = ""
    /\ ret' = Ret("args_as_list", "", [args |-> args, list |-> args_as_list(args_as_dict(args))])
    /\ UNCHANGED <<IN_DOCKER, hash_seed, display_cache, kwargs, profile>>

\* the validator copy_old_config_names_to_new run again on the profile;
\* ret.value.before is the profile as construction left it
CopyOldConfigNamesToNew ==
    /\ IsProfile
    /\ LET runs == IF ret.op = "__init__" THEN 0 ELSE ret.value.runs
       IN  /\ runs < MaxMigrations
           /\ profile' = Some(copy_old_config_names_to_new(profile[1]))
           /\ ret' = Ret("copy_old_config_names_to_new", "",
                         [runs |-> runs + 1,
                          before |-> IF runs = 0 THEN profile[1] ELSE ret.value.before])
    /\ UNCHANGED <<IN_DOCKER, hash_seed, display_cache, kwargs>>

(* ---------------------------------------------------------------------- *)
(* Specifications                                                          *)
(* ---------------------------------------------------------------------- *)
\* a record is constructed, and a profile then resolved and projected
Init == InitProcess({FALSE}, {0})

Next ==
    \/ \E kw \in GeometryKwargs \cup TimeoutKwargs : Construct("BrowserProfile", kw)
    \/ \E kw \in LaunchKwargs : Construct("BrowserLaunchArgs", kw)
    \/ \E kw \in TimeoutKwargs : Construct("BrowserConnectArgs", kw)
    \/ DetectDisplayConfiguration
    \/ KwargsForConnect

Spec == Init /\ [][Next]_vars

\* a profile is constructed, resolved and composed into a command line
InitArgs == InitProcess(BOOLEAN, 0..MaxHashSeed)

NextArgs ==
    \/ \E kw \in ComposerKwargs : Construct("BrowserProfile", kw)
    \/ DetectDisplayConfiguration
    \/ GetArgs

SpecArgs == InitArgs /\ [][NextArgs]_vars

\* the static methods args_as_dict and args_as_list on flag lists
NextDict == \E args \in BoundedSeq(DictFlags, MaxFlags) : ArgsRoundTrip(args)

SpecDict == Init /\ [][NextDict]_vars

\* a profile is constructed and its migration validator run again
NextMigrate ==
    \/ \E kw \in MigrationKwargs : Construct("BrowserProfile", kw)
    \/ CopyOldConfigNamesToNew

SpecMigrate == Init /\ [][NextMigrate]_vars

(* ====================================================================== *)
(* Properties                                                              *)
(* ====================================================================== *)
\* a flag's key: the text before its first '=', surrounding whitespace and
\* leading dashes removed
FlagKey(flag) == LStripDash(Strip(SplitKeyValue(flag).key))

FlagValue(flag) == Strip(SplitKeyValue(flag).value)

HasKey(flags, key) == \E i \in 1..Len(flags) : FlagKey(flags[i]) = key

Kw == kwargs[1].kw

(* C1: the list get_args returns holds no two flags with the same key,     *)
(* whatever the profile's options and the container signal.                *)
C1_NoDuplicateKeys ==
    ret.op = "get_args" =>
        LET keys == [i \in 1..Len(ret.value) |-> FlagKey(ret.value[i])]
        IN  \A i, j \in 1..Len(keys) : i # j => keys[i] # keys[j]

\* get_args has merged flags sharing a key: a user flag, the container flags and
\* the security flags each repeat a key of the default catalog
C1_Witness ==
    /\ ret.op = "get_args"
    /\ IN_DOCKER
    /\ profile[1].disable_security
    /\ profile[1].args = << <<"-", "-", "log-level", "=", "0">> >>
    /\ ~profile[1].ignore_default_args.all
    /\ Len(ret.value) + 3 <= Len(ComposedArgs(profile[1], IN_DOCKER, hash_seed))

(* C2: args_as_list(args_as_dict(seq)) has one entry per distinct key of   *)
(* seq, in the order of the keys' first occurrences, each with the value   *)
(* of the key's last occurrence, rendered --key when that value is empty   *)
(* and --key=value otherwise.                                              *)
C2_LastWriteWinsFirstSeenOrder ==
    ret.op = "args_as_list" =>
        LET seq   == ret.value.args
            out   == ret.value.list
            first == {i \in 1..Len(seq) : \A j \in 1..(i - 1) : FlagKey(seq[j]) # FlagKey(seq[i])}
            \* the position in the output of the key first seen at i
            pos(i) == Cardinality({j \in first : j <= i})
            last(i) == CHOOSE j \in 1..Len(seq) :
                          /\ FlagKey(seq[j]) = FlagKey(seq[i])
                          /\ \A m \in (j + 1)..Len(seq) : FlagKey(seq[m]) # FlagKey(seq[i])
        IN  /\ Len(out) = Cardinality(first)
            /\ \A i \in first :
                  LET value == FlagValue(seq[last(i)])
                  IN  out[pos(i)] = IF value = <<>>
                                    THEN <<"-", "-">> \o FlagKey(seq[i])
                                    ELSE <<"-", "-">> \o FlagKey(seq[i]) \o <<"=">> \o value

\* ['--foo=1', '--bar=1', '--foo=2'] has yielded ['--foo=2', '--bar=1']
C2_Witness ==
    /\ ret.op = "args_as_list"
    /\ ret.value.args = << <<"-", "-", "foo", "=", "1">>, <<"-", "-", "bar", "=", "1">>,
                           <<"-", "-", "foo", "=", "2">> >>
    /\ ret.value.list = << <<"-", "-", "foo", "=", "2">>, <<"-", "-", "bar", "=", "1">> >>

(* C3: with no window-size, start-maximized or headless flag among the     *)
(* user's args, the output of get_args for a headless profile holds        *)
(* neither a window-size nor a start-maximized flag, and for a profile     *)
(* that is not headless it holds no headless flag.                         *)
UserGeometryFlag ==
    \E i \in 1..Len(Kw.args) :
        FlagKey(Kw.args[i]) \in {<<"window-size">>, <<"start-maximized">>, <<"headless">>}

C3_HeadlessWindowExclusive ==
    (ret.op = "get_args" /\ ~UserGeometryFlag) =>
        IF profile[1].headless = Some(TRUE)
        THEN ~HasKey(ret.value, <<"window-size">>) /\ ~HasKey(ret.value, <<"start-maximized">>)
        ELSE ~HasKey(ret.value, <<"headless">>)

(* C4: with ignore_default_args a list, the default flags that are not     *)
(* removed come first in the output of get_args, in the order they have in *)
(* CHROME_DEFAULT_ARGS.                                                    *)
C4_BaselineOrderKept ==
    (ret.op = "get_args" /\ ~profile[1].ignore_default_args.all) =>
        LET base == SetDifference(CHROME_DEFAULT_ARGS, profile[1].ignore_default_args.list)
        IN  \A i \in 1..Len(base) : FlagKey(ret.value[i]) = FlagKey(base[i])

(* C5: constructing a BrowserProfile or a BrowserLaunchArgs with           *)
(* headless=True and devtools=True fails in validate_devtools_headless and *)
(* yields no record; with any other headless and devtools that validator   *)
(* does not fail.                                                          *)
C5_DevtoolsHeadlessRejected ==
    (ret.op = "__init__" /\ kwargs[1].cls \in {"BrowserProfile", "BrowserLaunchArgs"}) =>
        /\ IF Kw.headless = Some(TRUE) /\ Kw.devtools
           THEN profile = None /\ ret.raised = "validate_devtools_headless"
           ELSE ret.raised # "validate_devtools_headless"
        /\ (ret.raised = "" => profile # None)

\* BrowserProfile(headless=True, devtools=True) has failed
C5_Witness ==
    /\ ret.op = "__init__"
    /\ kwargs[1].cls = "BrowserProfile"
    /\ Kw.headless = Some(TRUE) /\ Kw.devtools
    /\ profile = None

(* C6 as stated: after a successful construction, if window_width or       *)
(* window_height is not None, window_size has both keys, each the value    *)
(* window_size had for it if it had one, otherwise the legacy field if it  *)
(* is not None, otherwise 1280 / 1100; if both are None window_size is as  *)
(* given.                                                                  *)
DimAsStated(kw, k, legacy, dflt) ==
    IF kw.window_size # None /\ k \in DOMAIN kw.window_size[1] THEN kw.window_size[1][k]
    ELSE IF legacy # None THEN legacy[1]
    ELSE dflt

DimNonZero(kw, k, legacy, dflt) ==
    IF kw.window_size # None /\ k \in DOMAIN kw.window_size[1] /\ kw.window_size[1][k] # 0
    THEN kw.window_size[1][k]
    ELSE IF legacy # None /\ legacy[1] # 0 THEN legacy[1]
    ELSE dflt

C9_DisplayWindowed ==
    (/\ ret.op = "detect_display_configuration"
     /\ display_cache = Some(Some(ViewportSize(1920, 1080)))
     /\ Kw.headless = Some(FALSE)) =>
        /\ profile[1].window_size = Some(ViewportSize(1920, 1080))
        /\ profile[1].no_viewport = Some(TRUE)
        /\ profile[1].viewport = None

(* C9 amended: the same for a profile constructed without window_size,     *)
(* window_width and window_height and without no_viewport=False.           *)
C9_DisplayWindowedUnsized ==
    (/\ ret.op = "detect_display_configuration"
     /\ display_cache = Some(Some(ViewportSize(1920, 1080)))
     /\ Kw.headless = Some(FALSE)
     /\ Kw.window_size = None /\ Kw.window_width = None /\ Kw.window_height = None
     /\ Kw.no_viewport # Some(FALSE)) =>
        /\ profile[1].window_size = Some(ViewportSize(1920, 1080))
        /\ profile[1].no_viewport = Some(TRUE)
        /\ profile[1].viewport = None

\* a windowed profile given a viewport has been resolved on a 1920x1080 display
C9_Witness ==
    /\ ret.op = "detect_display_configuration"
    /\ display_cache = Some(Some(ViewportSize(1920, 1080)))
    /\ Kw.headless = Some(FALSE)
    /\ Kw.window_size = None /\ Kw.window_width = None /\ Kw.window_height = None
    /\ Kw.no_viewport = None
    /\ Kw.viewport # None
    /\ profile[1].window_size = Some(ViewportSize(1920, 1080))
    /\ profile[1].viewport = None

(* C10: a BrowserConnectArgs that was constructed, and one that            *)
(* kwargs_for_connect returns, has timeout >= 0; a negative timeout fails  *)
(* construction.                                                           *)
C10_TimeoutNonNegative ==
    /\ (kwargs # None /\ kwargs[1].cls = "BrowserConnectArgs") =>
          /\ profile # None => profile[1].timeout >= 0
          /\ Kw.timeout < 0 => profile = None
    /\ (ret.op = "kwargs_for_connect" /\ ret.value # None) => ret.value[1].timeout >= 0

(* C11: after detect_display_configuration has returned, either            *)
(* no_viewport is False and viewport, device_scale_factor and screen are   *)
(* all set, device_scale_factor being 1 unless the caller gave a non-zero  *)
(* one, or no_viewport is True and the three are all None.                 *)
C11_ViewportShape ==
    (ret.op = "detect_display_configuration" /\ ret.raised = "") =>
        \/ /\ profile[1].no_viewport = Some(FALSE)
           /\ profile[1].viewport # None
           /\ profile[1].screen # None
           /\ profile[1].device_scale_factor =
                  (IF TruthyNum(Kw.device_scale_factor) THEN Kw.device_scale_factor ELSE Some(1))
        \/ /\ profile[1].no_viewport = Some(TRUE)
           /\ profile[1].viewport = None
           /\ profile[1].screen = None
           /\ profile[1].device_scale_factor = None

\* a windowed profile given a screen, a viewport and a device_scale_factor has
\* been resolved on a display and lost all three
C11_Witness ==
    /\ ret.op = "detect_display_configuration" /\ ret.raised = ""
    /\ display_cache = Some(Some(ViewportSize(1920, 1080)))
    /\ Kw.screen # None /\ Kw.viewport # None /\ Kw.device_scale_factor # None
    /\ Kw.no_viewport = None
    /\ profile[1].no_viewport = Some(TRUE)
    /\ profile[1].screen = None

(* C12: when the caller did not give no_viewport, detect_display_-         *)
(* configuration leaves no_viewport the negation of (headless or viewport  *)
(* given or device_scale_factor given); a windowed profile given a         *)
(* device_scale_factor but no no_viewport ends with no_viewport False and  *)
(* viewport, device_scale_factor and screen set.                           *)
C12_NoViewportDerived ==
    (/\ ret.op = "detect_display_configuration" /\ ret.raised = ""
     /\ Kw.no_viewport = None) =>
        /\ profile[1].no_viewport =
               Some(~(\/ TruthyBool(profile[1].headless)
                      \/ TruthyDict(Kw.viewport)
                      \/ TruthyNum(Kw.device_scale_factor)))
        /\ (~TruthyBool(profile[1].headless) /\ TruthyNum(Kw.device_scale_factor)) =>
               /\ profile[1].viewport # None
               /\ profile[1].device_scale_factor # None
               /\ profile[1].screen # None

C14_NeverHeadlessDevtools ==
    (profile # None /\ kwargs[1].cls = "BrowserProfile") =>
        ~(profile[1].headless = Some(TRUE) /\ profile[1].devtools)

C16_GeometryFlagOrder ==
    ret.op = "get_args" =>
        /\ profile[1].window_size # None =>
               Contains(ret.value,
                        <<"-", "-", "window-size", "=",
                          ToString(profile[1].window_size[1]["width"]) \o ","
                              \o ToString(profile[1].window_size[1]["height"])>>)
        /\ profile[1].window_position # None =>
               Contains(ret.value,
                        <<"-", "-", "window-position", "=",
                          ToString(profile[1].window_position[1]["width"]) \o ","
                              \o ToString(profile[1].window_position[1]["height"])>>)
====
